---- MODULE Spec2Model ----
(***************************************************************************)
(* Emotional prosody transfer (emotional_prosody_transfer.py).             *)
(*                                                                         *)
(* main() loads two recordings, checks that their sample rates agree,      *)
(* analyses both with the WORLD vocoder, puts the emotional pitch contour  *)
(* on the neutral recording's frames (transfer_prosody), synthesises,      *)
(* writes the audio and optionally plots the three pitch contours.         *)
(*                                                                         *)
(* The state is main's local variables, the two files main produces, the   *)
(* position of main (pc), and a log of the steps main has started.         *)
(* The libraries (librosa, pyworld, soundfile, matplotlib, numpy) are      *)
(* modelled at the calls main makes: np.resize by what numpy computes, the *)
(* vocoder's analysis as any frame-aligned result, and every library call  *)
(* as one that may raise, which ends main (nothing in it catches).         *)
(***************************************************************************)
EXTENDS Integers, Sequences, FiniteSets, TLC

VARIABLES
    pc,          \* position of main: the step it is about to run
    fs,          \* the input files: TRUE when the file can be read and decoded
    plot_file,   \* main's plot_file argument ("" is a falsy path)
    y_emo, sr_emo, y_neu, sr_neu, sr,
    f0_emo, sp_emo, ap_emo,
    f0_neu, sp_neu, ap_neu,
    f0_conv, sp_conv, ap_conv,
    y_conv,
    audio_out,   \* what sf.write has put in output_file
    plot_out,    \* what plt.savefig has put in plot_file
    steps,       \* the steps main has started, in order
    rate_passed, \* <<step, rate>> for every call that was given a sample rate
    error        \* the exception that ended main, "none" while there is none

vars == <<pc, fs, plot_file, y_emo, sr_emo, y_neu, sr_neu, sr,
          f0_emo, sp_emo, ap_emo, f0_neu, sp_neu, ap_neu,
          f0_conv, sp_conv, ap_conv, y_conv, audio_out, plot_out,
          steps, rate_passed, error>>

-----------------------------------------------------------------------------
(* Bounds and constants *)

\* most frames one analysis returns (pyworld returns at least one)
MaxFrames == 3

\* longest source contour, and largest target frame count, given to
\* transfer_prosody when it is exercised on its own
MaxLen == 3
MaxTarget == 4

\* def load_and_preprocess_audio(file_path, target_sr=22050)
TargetSr == 22050

\* frame_period = 5.0 (milliseconds)
FramePeriod == 5

\* pitch values of one frame: 0 is an unvoiced frame
F0Vals == {0, 100, 200}

\* rates a loader that is not trusted to resample could report
Rates == {TargetSr, 16000}

\* the file names of the __main__ block
EmotionalFile == "emotion.wav"
NeutralFile == "neutral.wav"
OutputFile == "converted.wav"
PlotFiles == {"", "f0_comparison.png"}

\* rows of a spectral envelope / an aperiodicity given to transfer_prosody
\* when it is exercised on its own
SpRows == {"s1", "s2"}
ApRows == {"a1", "a2"}

SeqsOfLen(S, n) == [1..n -> S]
SeqsUpTo(S, lo, hi) == UNION {SeqsOfLen(S, n) : n \in lo..hi}

-----------------------------------------------------------------------------
(* numpy.resize(a, new_shape) for a 1-D array and an integer shape *)

RECURSIVE Tile(_, _)
Tile(a, k) == IF k = 0 THEN <<>> ELSE a \o Tile(a, k - 1)

np_resize(a, new_size) ==
    IF Len(a) = 0 \/ new_size = 0
    THEN [i \in 1..new_size |-> 0]
    ELSE LET repeats == -((0 - new_size) \div Len(a))
         IN  SubSeq(Tile(a, repeats), 1, new_size)

-----------------------------------------------------------------------------
(* The functions of the script *)

\* librosa.load(file_path, sr=target_sr, mono=True) resamples, so the rate it
\* hands back is target_sr whatever the file's own rate is.
Resampled(target_sr) == {target_sr}

\* load_and_preprocess_audio(file_path, target_sr): the results a readable
\* file can give, when the library reports one of the rates of `reported`
\* (an unreadable file makes librosa.load raise: see the Load actions).
load_and_preprocess_audio(file_path, reported) ==
    {[y |-> <<"wave", file_path>>, sr |-> r] : r \in reported}

\* pw.cheaptrick / pw.d4c: one row per frame of f0, computed from the waveform.
\* A row is kept as the term that names it.
CheapTrick(y, f0) == [i \in 1..Len(f0) |-> <<"sp", y, i>>]
D4C(y, f0) == [i \in 1..Len(f0) |-> <<"ap", y, i>>]

\* analyze_speech(y, sr, frame_period): the pitch contour is whatever
\* DIO/Stonemask estimate (one value per frame, at least one frame); the
\* envelope and the aperiodicity are frame-aligned to it.
analyze_speech(y, rate, frame_period) ==
    {[f0 |-> f, sp |-> CheapTrick(y, f), ap |-> D4C(y, f)] :
        f \in SeqsUpTo(F0Vals, 1, MaxFrames)}

\* Variants of transfer_prosody with a slip in the alignment; each property
\* below that is decided by the alignment fails on one of them.
\* np.tile(f0_source, repeats) without the cut to num_frames_target:
transfer_prosody_tiled(f0_source, sp_target, ap_target) ==
    LET n == Len(sp_target)
        L == Len(f0_source)
    IN  <<IF L = 0 THEN [i \in 1..n |-> 0]
          ELSE Tile(f0_source, (n + L - 1) \div L),
          sp_target, ap_target>>

\* ndarray.resize semantics, padding with zeros instead of repeating:
transfer_prosody_zeropad(f0_source, sp_target, ap_target) ==
    <<[i \in 1..Len(sp_target) |->
          IF i <= Len(f0_source) THEN f0_source[i] ELSE 0],
      sp_target, ap_target>>

\* keeping the last frames of a longer source, f0_source[-n:]:
transfer_prosody_tail(f0_source, sp_target, ap_target) ==
    LET n == Len(sp_target)
        L == Len(f0_source)
    IN  <<IF L > n THEN SubSeq(f0_source, L - n + 1, L)
          ELSE np_resize(f0_source, n),
          sp_target, ap_target>>

transfer_prosody(f0_source, sp_target, ap_target) ==
    LET num_frames_target == Len(sp_target)
        f0_aligned == np_resize(f0_source, num_frames_target)
    IN  <<f0_aligned, sp_target, ap_target>>

\* pw.synthesize: the number of samples follows from the number of frames.
SynthLength(n_frames, rate, frame_period) ==
    (n_frames * frame_period * rate) \div 1000

synthesize_speech(f0, sp, ap, rate, frame_period) ==
    <<"synth", SynthLength(Len(f0), rate, frame_period)>>

\* np.ma.masked_where(f0 == 0, f0): a copy of the data with a mask over it
Masked(f0) == [data |-> f0, mask |-> [i \in 1..Len(f0) |-> f0[i] = 0]]

\* np.arange(len(f0)) * frame_period / 1000.0, kept in milliseconds
TimeAxis(f0, frame_period) == [i \in 1..Len(f0) |-> (i - 1) * frame_period]

\* the three lines plot_f0_contours draws, in the order it draws them
Figure(e, n, c, frame_period) ==
    << [label |-> "Original Neutral F0",
        t |-> TimeAxis(n, frame_period), y |-> Masked(n)],
       [label |-> "Original Emotional F0",
        t |-> TimeAxis(e, frame_period), y |-> Masked(e)],
       [label |-> "Converted F0",
        t |-> TimeAxis(c, frame_period), y |-> Masked(c)] >>

-----------------------------------------------------------------------------
(* main, one action per step *)

loads == <<y_emo, sr_emo, y_neu, sr_neu>>
emo == <<f0_emo, sp_emo, ap_emo>>
neu == <<f0_neu, sp_neu, ap_neu>>
conv == <<f0_conv, sp_conv, ap_conv>>
outs == <<audio_out, plot_out>>

Init ==
    /\ pc = "load_emo"
    /\ fs \in [{EmotionalFile, NeutralFile} -> BOOLEAN]
    /\ plot_file \in PlotFiles
    /\ y_emo = <<>> /\ sr_emo = 0 /\ y_neu = <<>> /\ sr_neu = 0 /\ sr = 0
    /\ f0_emo = <<>> /\ sp_emo = <<>> /\ ap_emo = <<>>
    /\ f0_neu = <<>> /\ sp_neu = <<>> /\ ap_neu = <<>>
    /\ f0_conv = <<>> /\ sp_conv = <<>> /\ ap_conv = <<>>
    /\ y_conv = <<>>
    /\ audio_out = <<>> /\ plot_out = <<>>
    /\ steps = <<>>
    /\ rate_passed = {}
    /\ error = "none"

\* Variant of the first load with the failure swallowed (try/except around
\* the load, carrying on without the waveform).
LoadEmotional_swallow(reported) ==
    /\ pc = "load_emo"
    /\ steps' = Append(steps, "load_emo")
    /\ \E r \in load_and_preprocess_audio(EmotionalFile, reported) :
          IF fs[EmotionalFile]
          THEN y_emo' = r.y /\ sr_emo' = r.sr
          ELSE y_emo' = <<>> /\ sr_emo' = r.sr
    /\ pc' = "load_neu"
    /\ UNCHANGED <<fs, plot_file, y_neu, sr_neu, sr, emo, neu, conv, y_conv,
                   outs, rate_passed, error>>

\* y_emo, sr_emo = load_and_preprocess_audio(emotional_file)
LoadEmotional(reported) ==
    /\ pc = "load_emo"
    /\ steps' = Append(steps, "load_emo")
    /\ \E r \in load_and_preprocess_audio(EmotionalFile, reported) :
          IF fs[EmotionalFile]
          THEN /\ y_emo' = r.y /\ sr_emo' = r.sr
               /\ pc' = "load_neu" /\ UNCHANGED error
          ELSE /\ pc' = "failed" /\ error' = "IOError"
               /\ UNCHANGED <<y_emo, sr_emo>>
    /\ UNCHANGED <<fs, plot_file, y_neu, sr_neu, sr, emo, neu, conv, y_conv,
                   outs, rate_passed>>

\* y_neu, sr_neu = load_and_preprocess_audio(neutral_file)
LoadNeutral(reported) ==
    /\ pc = "load_neu"
    /\ steps' = Append(steps, "load_neu")
    /\ \E r \in load_and_preprocess_audio(NeutralFile, reported) :
          IF fs[NeutralFile]
          THEN /\ y_neu' = r.y /\ sr_neu' = r.sr
               /\ pc' = "check_sr" /\ UNCHANGED error
          ELSE /\ pc' = "failed" /\ error' = "IOError"
               /\ UNCHANGED <<y_neu, sr_neu>>
    /\ UNCHANGED <<fs, plot_file, y_emo, sr_emo, sr, emo, neu, conv, y_conv,
                   outs, rate_passed>>

\* Variants of the rate check.
\* a warning in place of the raise:
RateCheck_warn ==
    /\ pc = "check_sr"
    /\ steps' = Append(steps, "check_sr")
    /\ pc' = "analyze_emo" /\ sr' = sr_emo
    /\ UNCHANGED <<fs, plot_file, loads, emo, neu, conv, y_conv, outs,
                   rate_passed, error>>

\* the comparison inverted (== for !=):
RateCheck_inverted ==
    /\ pc = "check_sr"
    /\ steps' = Append(steps, "check_sr")
    /\ IF sr_emo = sr_neu
       THEN pc' = "failed" /\ error' = "ValueError" /\ UNCHANGED sr
       ELSE pc' = "analyze_emo" /\ sr' = sr_emo /\ UNCHANGED error
    /\ UNCHANGED <<fs, plot_file, loads, emo, neu, conv, y_conv, outs, rate_passed>>

\* if sr_emo != sr_neu: raise ValueError(...);  sr = sr_emo
RateCheck ==
    /\ pc = "check_sr"
    /\ steps' = Append(steps, "check_sr")
    /\ IF sr_emo # sr_neu
       THEN pc' = "failed" /\ error' = "ValueError" /\ UNCHANGED sr
       ELSE pc' = "analyze_emo" /\ sr' = sr_emo /\ UNCHANGED error
    /\ UNCHANGED <<fs, plot_file, loads, emo, neu, conv, y_conv, outs, rate_passed>>

\* f0_emo, sp_emo, ap_emo = analyze_speech(y_emo, sr, frame_period)
AnalyzeEmotional ==
    /\ pc = "analyze_emo"
    /\ steps' = Append(steps, "analyze_emo")
    /\ rate_passed' = rate_passed \cup {<<"analyze_emo", sr>>}
    /\ \E ok \in BOOLEAN :
       \E r \in analyze_speech(y_emo, sr, FramePeriod) :
          IF ok
          THEN /\ f0_emo' = r.f0 /\ sp_emo' = r.sp /\ ap_emo' = r.ap
               /\ pc' = "analyze_neu" /\ UNCHANGED error
          ELSE /\ pc' = "failed" /\ error' = "VocoderError"
               /\ UNCHANGED emo
    /\ UNCHANGED <<fs, plot_file, loads, sr, neu, conv, y_conv, outs>>

\* f0_neu, sp_neu, ap_neu = analyze_speech(y_neu, sr, frame_period)
AnalyzeNeutral ==
    /\ pc = "analyze_neu"
    /\ steps' = Append(steps, "analyze_neu")
    /\ rate_passed' = rate_passed \cup {<<"analyze_neu", sr>>}
    /\ \E ok \in BOOLEAN :
       \E r \in analyze_speech(y_neu, sr, FramePeriod) :
          IF ok
          THEN /\ f0_neu' = r.f0 /\ sp_neu' = r.sp /\ ap_neu' = r.ap
               /\ pc' = "transfer" /\ UNCHANGED error
          ELSE /\ pc' = "failed" /\ error' = "VocoderError"
               /\ UNCHANGED neu
    /\ UNCHANGED <<fs, plot_file, loads, sr, emo, conv, y_conv, outs>>

\* Variants of the transfer step.
\* f0_source.resize(n) in place: the caller's contour is changed as well
TransferProsody_inplace ==
    /\ pc = "transfer"
    /\ steps' = Append(steps, "transfer")
    /\ LET r == transfer_prosody(f0_emo, sp_neu, ap_neu)
       IN  /\ f0_conv' = r[1] /\ sp_conv' = r[2] /\ ap_conv' = r[3]
           /\ f0_emo' = r[1]
    /\ pc' = "synthesize"
    /\ UNCHANGED <<fs, plot_file, loads, sr, sp_emo, ap_emo, neu, y_conv, outs,
                   rate_passed, error>>

\* transfer_prosody(f0_emo, sp_emo, ap_emo): the source's own envelope
TransferProsody_source_frames ==
    /\ pc = "transfer"
    /\ steps' = Append(steps, "transfer")
    /\ LET r == transfer_prosody(f0_emo, sp_emo, ap_emo)
       IN  f0_conv' = r[1] /\ sp_conv' = r[2] /\ ap_conv' = r[3]
    /\ pc' = "synthesize"
    /\ UNCHANGED <<fs, plot_file, loads, sr, emo, neu, y_conv, outs,
                   rate_passed, error>>

\* f0_conv, sp_conv, ap_conv = transfer_prosody(f0_emo, sp_neu, ap_neu)
TransferProsody ==
    /\ pc = "transfer"
    /\ steps' = Append(steps, "transfer")
    /\ LET r == transfer_prosody(f0_emo, sp_neu, ap_neu)
       IN  f0_conv' = r[1] /\ sp_conv' = r[2] /\ ap_conv' = r[3]
    /\ pc' = "synthesize"
    /\ UNCHANGED <<fs, plot_file, loads, sr, emo, neu, y_conv, outs,
                   rate_passed, error>>

\* y_conv = synthesize_speech(f0_conv, sp_conv, ap_conv, sr, frame_period)
\* (pw.synthesize refuses parameters whose frame counts differ)
SynthesizeSpeech ==
    /\ pc = "synthesize"
    /\ steps' = Append(steps, "synthesize")
    /\ rate_passed' = rate_passed \cup {<<"synthesize", sr>>}
    /\ LET aligned == Len(f0_conv) = Len(sp_conv) /\ Len(f0_conv) = Len(ap_conv)
       IN  \E ok \in (IF aligned THEN BOOLEAN ELSE {FALSE}) :
              IF ok
              THEN /\ y_conv' = synthesize_speech(f0_conv, sp_conv, ap_conv,
                                                  sr, FramePeriod)
                   /\ pc' = "write" /\ UNCHANGED error
              ELSE /\ pc' = "failed" /\ error' = "VocoderError"
                   /\ UNCHANGED y_conv
    /\ UNCHANGED <<fs, plot_file, loads, sr, emo, neu, conv, outs>>

\* Variant of the write step that goes on to plot whether or not a plot path
\* was given (the `if plot_file:` dropped).
WriteAudio_alwaysplot ==
    /\ pc = "write"
    /\ steps' = Append(steps, "write")
    /\ rate_passed' = rate_passed \cup {<<"write", sr>>}
    /\ \E ok \in BOOLEAN :
          IF ok
          THEN /\ audio_out' = <<OutputFile, y_conv, sr>>
               /\ pc' = "plot"
               /\ UNCHANGED error
          ELSE /\ pc' = "failed" /\ error' = "IOError"
               /\ UNCHANGED audio_out
    /\ UNCHANGED <<fs, plot_file, loads, sr, emo, neu, conv, y_conv, plot_out>>

\* sf.write(output_file, y_conv, sr);  if plot_file: ...
WriteAudio ==
    /\ pc = "write"
    /\ steps' = Append(steps, "write")
    /\ rate_passed' = rate_passed \cup {<<"write", sr>>}
    /\ \E ok \in BOOLEAN :
          IF ok
          THEN /\ audio_out' = <<OutputFile, y_conv, sr>>
               /\ pc' = (IF plot_file # "" THEN "plot" ELSE "done")
               /\ UNCHANGED error
          ELSE /\ pc' = "failed" /\ error' = "IOError"
               /\ UNCHANGED audio_out
    /\ UNCHANGED <<fs, plot_file, loads, sr, emo, neu, conv, y_conv, plot_out>>

\* Variant of the plot step that blanks the unvoiced frames in the arrays it
\* was given (f0[f0 == 0] = nan) instead of masking a copy; -1 stands for nan.
Blanked(f0) == [i \in 1..Len(f0) |-> IF f0[i] = 0 THEN -1 ELSE f0[i]]

PlotContours_inplace ==
    /\ pc = "plot"
    /\ steps' = Append(steps, "plot")
    /\ rate_passed' = rate_passed \cup {<<"plot", sr>>}
    /\ f0_emo' = Blanked(f0_emo)
    /\ f0_neu' = Blanked(f0_neu)
    /\ f0_conv' = Blanked(f0_conv)
    /\ \E ok \in BOOLEAN :
          IF ok
          THEN /\ plot_out' = <<plot_file,
                                Figure(f0_emo, f0_neu, f0_conv, FramePeriod)>>
               /\ pc' = "done" /\ UNCHANGED error
          ELSE /\ pc' = "failed" /\ error' = "IOError"
               /\ UNCHANGED plot_out
    /\ UNCHANGED <<fs, plot_file, loads, sr, sp_emo, ap_emo, sp_neu, ap_neu,
                   sp_conv, ap_conv, y_conv, audio_out>>

\* plot_f0_contours(f0_emo, f0_neu, f0_conv, sr, frame_period, plot_file)
PlotContours ==
    /\ pc = "plot"
    /\ steps' = Append(steps, "plot")
    /\ rate_passed' = rate_passed \cup {<<"plot", sr>>}
    /\ \E ok \in BOOLEAN :
          IF ok
          THEN /\ plot_out' = <<plot_file,
                                Figure(f0_emo, f0_neu, f0_conv, FramePeriod)>>
               /\ pc' = "done" /\ UNCHANGED error
          ELSE /\ pc' = "failed" /\ error' = "IOError"
               /\ UNCHANGED plot_out
    /\ UNCHANGED <<fs, plot_file, loads, sr, emo, neu, conv, y_conv, audio_out>>

\* main with librosa resampling both files to the default target rate
Next ==
    \/ LoadEmotional(Resampled(TargetSr))
    \/ LoadNeutral(Resampled(TargetSr))
    \/ RateCheck
    \/ AnalyzeEmotional
    \/ AnalyzeNeutral
    \/ TransferProsody
    \/ SynthesizeSpeech
    \/ WriteAudio
    \/ PlotContours

Spec == Init /\ [][Next]_vars

\* main with a loader whose reported rate is not taken on trust: the rate
\* check of main is then the only thing between a mismatch and the analysis
NextAnyRate ==
    \/ LoadEmotional(Rates)
    \/ LoadNeutral(Rates)
    \/ RateCheck
    \/ AnalyzeEmotional
    \/ AnalyzeNeutral
    \/ TransferProsody
    \/ SynthesizeSpeech
    \/ WriteAudio
    \/ PlotContours

SpecAnyRate == Init /\ [][NextAnyRate]_vars

\* transfer_prosody on its own: any contour against any frame-aligned
\* envelope/aperiodicity pair, empty ones included
InitTransfer ==
    /\ pc = "transfer"
    /\ fs = [f \in {EmotionalFile, NeutralFile} |-> TRUE]
    /\ plot_file = ""
    /\ y_emo = <<>> /\ sr_emo = 0 /\ y_neu = <<>> /\ sr_neu = 0 /\ sr = 0
    /\ f0_emo \in SeqsUpTo(F0Vals, 0, MaxLen)
    /\ sp_emo = <<>> /\ ap_emo = <<>>
    /\ f0_neu = <<>>
    /\ \E n \in 0..MaxTarget :
          sp_neu \in SeqsOfLen(SpRows, n) /\ ap_neu \in SeqsOfLen(ApRows, n)
    /\ f0_conv = <<>> /\ sp_conv = <<>> /\ ap_conv = <<>>
    /\ y_conv = <<>>
    /\ audio_out = <<>> /\ plot_out = <<>>
    /\ steps = <<>>
    /\ rate_passed = {}
    /\ error = "none"

NextTransfer == TransferProsody

SpecTransfer == InitTransfer /\ [][NextTransfer]_vars

-----------------------------------------------------------------------------
(* Properties of transfer_prosody, checked under SpecTransfer *)

\* the call transfer_prosody(f0_emo, sp_neu, ap_neu) has returned
Transferred == pc = "synthesize"

\* C1: for every target frame count N (the envelope's frame count) and every
\* source contour of length L, the aligned contour has length exactly N,
\* whether L < N, L > N or L = N.
C1_AlignedLength ==
    Transferred => Len(f0_conv) = Len(sp_neu)

\* a shorter source against a target it does not divide
C1_Witness ==
    /\ Transferred
    /\ Len(f0_emo) = 3 /\ Len(sp_neu) = 4
    /\ Len(f0_conv) = 4

\* C2: resizing repeats the source cyclically without changing a value: for
\* L > 0, element i of the aligned contour is source element i mod L for every
\* 0 <= i < N, and when L divides N the aligned contour is N/L verbatim copies
\* of the source.
C2_CyclicRepetition ==
    LET L == Len(f0_emo)
        N == Len(sp_neu)
    IN  (Transferred /\ L > 0) =>
           /\ DOMAIN f0_conv = 1..N
           /\ \A i \in 0..(N - 1) : f0_conv[i + 1] = f0_emo[(i % L) + 1]
           /\ (N % L = 0) =>
                 \A k \in 0..((N \div L) - 1) :
                    SubSeq(f0_conv, k * L + 1, (k + 1) * L) = f0_emo

\* a two-frame source with two different values, repeated twice
C2_Witness ==
    /\ Transferred
    /\ Len(f0_emo) = 2 /\ Len(sp_neu) = 4
    /\ f0_emo[1] # f0_emo[2]
    /\ f0_conv = f0_emo \o f0_emo

\* C3: a source longer than the target is truncated: the aligned contour is
\* the first N values of the source, in order, none of them altered.
C3_Truncation ==
    LET L == Len(f0_emo)
        N == Len(sp_neu)
    IN  (Transferred /\ L > N) =>
           /\ DOMAIN f0_conv = 1..N
           /\ \A i \in 1..N : f0_conv[i] = f0_emo[i]

\* three frames cut to two, the dropped frame differing from the kept ones
C3_Witness ==
    /\ Transferred
    /\ Len(f0_emo) = 3 /\ Len(sp_neu) = 2
    /\ f0_emo[3] # f0_emo[1] /\ f0_emo[3] # f0_emo[2] /\ f0_emo[1] # f0_emo[2]
    /\ f0_conv = <<f0_emo[1], f0_emo[2]>>

\* C5: transfer_prosody hands back the target's envelope and aperiodicity as
\* they were given (same frames, same values), and leaves the source contour
\* and the target arrays it was given as they were.
C5_TargetUnchanged ==
    [][pc = "transfer" =>
          /\ sp_conv' = sp_neu /\ ap_conv' = ap_neu
          /\ f0_emo' = f0_emo /\ sp_neu' = sp_neu /\ ap_neu' = ap_neu]_vars

\* a call whose contour had to be resized, on an envelope with different rows
C5_Witness ==
    /\ Transferred
    /\ Len(sp_neu) = 3 /\ sp_neu[1] # sp_neu[2] /\ ap_neu[2] # ap_neu[3]
    /\ sp_conv = sp_neu /\ ap_conv = ap_neu
    /\ Len(f0_emo) = 2 /\ f0_conv # f0_emo

-----------------------------------------------------------------------------
(* Properties of main *)

\* step s has been started
Ran(s) == \E i \in DOMAIN steps : steps[i] = s

\* the steps that work on the loaded audio
Processing == {"analyze_emo", "analyze_neu", "transfer", "synthesize", "write"}

\* both loads have returned, and returned different rates
RatesDiffer == sr_emo # 0 /\ sr_neu # 0 /\ sr_emo # sr_neu

\* C4 (under SpecAnyRate): when the two loaded rates differ, main fails with
\* the ValueError of the rate check before the analyzer is invoked: no
\* analysis, transfer, synthesis, write or plot step is ever started, nothing
\* is written, and the run is at the rate check or has failed there.
C4_MismatchFailsFast ==
    RatesDiffer =>
       /\ \A s \in Processing \cup {"plot"} : ~Ran(s)
       /\ pc \in {"check_sr", "failed"}
       /\ (pc = "failed" => error = "ValueError")
       /\ (~ENABLED NextAnyRate => pc = "failed")
       /\ audio_out = <<>> /\ plot_out = <<>>

\* a run that has failed at the rate check
C4_Witness ==
    /\ RatesDiffer
    /\ pc = "failed" /\ error = "ValueError"
    /\ steps = <<"load_emo", "load_neu", "check_sr">>

\* C6 (under SpecAnyRate): whenever analysis, transfer, synthesis or the write
\* runs, the two inputs have the same sample rate, and that one rate is the
\* rate given to both analyzer calls, the synthesizer and the writer.
C6_SharedRate ==
    (\E s \in Processing : Ran(s) \/ pc = s) =>
       /\ sr_emo = sr_neu /\ sr = sr_emo
       /\ \A p \in rate_passed :
             p[1] \in {"analyze_emo", "analyze_neu", "synthesize", "write"}
                => (p[2] = sr_emo /\ p[2] = sr_neu)

\* a run that has written its audio, all four calls having been given the rate
C6_Witness ==
    /\ Ran("write") /\ audio_out # <<>>
    /\ {<<"analyze_emo", sr_emo>>, <<"analyze_neu", sr_emo>>,
        <<"synthesize", sr_emo>>, <<"write", sr_emo>>} \subseteq rate_passed

\* C7: at the synthesizer call the pitch contour, the envelope and the
\* aperiodicity have one frame count, the neutral input's, whatever the
\* emotional input's frame count is; and the synthesized waveform has the
\* number of samples that the neutral input's frame count gives.
C7_TargetFrameCount ==
    /\ pc = "synthesize" =>
          /\ Len(f0_conv) = Len(sp_conv) /\ Len(sp_conv) = Len(ap_conv)
          /\ Len(f0_conv) = Len(f0_neu)
    /\ y_conv # <<>> =>
          y_conv[2] = (Len(f0_neu) * FramePeriod * sr) \div 1000

\* a synthesized run whose two inputs had different frame counts
C7_Witness ==
    /\ pc = "write" /\ y_conv # <<>>
    /\ Len(f0_emo) = 3 /\ Len(f0_neu) = 2
    /\ Len(f0_conv) = 2

\* C8: a file that cannot be read or decoded ends the run at its load step:
\* the run is in the failed state with the I/O error, the failing load was
\* attempted once, and no later step (second load, analysis, transfer,
\* synthesis, write, plot) has been started or has written anything.
C8_LoadFailureFatal ==
    /\ (Ran("load_emo") /\ ~fs[EmotionalFile]) =>
          /\ pc = "failed" /\ error = "IOError"
          /\ steps = <<"load_emo">>
          /\ ~ENABLED Next
          /\ audio_out = <<>> /\ plot_out = <<>>
    /\ (Ran("load_neu") /\ ~fs[NeutralFile]) =>
          /\ pc = "failed" /\ error = "IOError"
          /\ steps = <<"load_emo", "load_neu">>
          /\ ~ENABLED Next
          /\ audio_out = <<>> /\ plot_out = <<>>

\* the emotional file is unreadable and its load has been attempted
C8_Witness ==
    /\ ~fs[EmotionalFile] /\ Ran("load_emo")
    /\ pc = "failed"

\* the order of main's steps
Order ==
    <<"load_emo", "load_neu", "check_sr", "analyze_emo", "analyze_neu",
      "transfer", "synthesize", "write", "plot">>

\* C9: the steps of main run strictly in sequence, each at most once: load
\* emotional, load neutral, rate check, analyze emotional, analyze neutral,
\* transfer, synthesize, write, plot. The plot step runs only after the audio
\* has been written and only when a plot path was given, and the audio file
\* stays what the write left in it; a run that has stopped is completed or
\* failed, and a completed run has done every step up to the write.
C9_StrictSequence ==
    /\ Len(steps) <= Len(Order)
    /\ \A i \in DOMAIN steps : steps[i] = Order[i]
    /\ Ran("plot") =>
          /\ plot_file # ""
          /\ audio_out = <<OutputFile, y_conv, sr>>
    /\ audio_out # <<>> => audio_out = <<OutputFile, y_conv, sr>>
    /\ plot_out # <<>> => (Ran("plot") /\ audio_out # <<>>)
    /\ pc \in {"done", "failed"} \/ ENABLED Next
    /\ pc \in {"done", "failed"} => ~ENABLED Next
    /\ pc = "done" =>
          /\ audio_out # <<>>
          /\ steps = (IF plot_file # "" THEN Order
                      ELSE SubSeq(Order, 1, Len(Order) - 1))

\* a completed run with a plot
C9_Witness ==
    /\ pc = "done" /\ steps = Order
    /\ audio_out # <<>> /\ plot_out # <<>>

\* C10: plot_f0_contours leaves the three contours it is given as they were,
\* element for element, the zero (unvoiced) entries it masks included.
C10_PlotKeepsContours ==
    [][pc = "plot" =>
          /\ f0_emo' = f0_emo /\ f0_neu' = f0_neu /\ f0_conv' = f0_conv]_vars

\* a saved plot of contours with unvoiced frames, masked in the figure and
\* still zero in the arrays
C10_Witness ==
    /\ pc = "done" /\ plot_out # <<>>
    /\ Len(f0_emo) = 3 /\ Len(f0_neu) = 2
    /\ f0_emo[1] = 0 /\ f0_emo[2] # 0 /\ f0_neu[2] = 0 /\ f0_conv[1] = 0
    /\ plot_out[2][2].y.mask[1] /\ plot_out[2][1].y.mask[2]
    /\ plot_out[2][2].y.data = f0_emo

====
